---- MODULE Spec2Model ----
(***************************************************************************)
(* Model of Eigen/src/Core/arch/AVX/MathFunctions.h: the AVX packet math   *)
(* functions psin, psqrt and prsqrt over IEEE-754 binary32 lanes.          *)
(*                                                                         *)
(* A 32-bit lane is the record [s, e, m] of its three bit fields: bit 31,  *)
(* bits 30..23 and bits 22..0.  The same record is the bit pattern of a    *)
(* float lane and of an integer lane, so a cast between Packet8f and       *)
(* Packet8i leaves it unchanged.  Arithmetic is IEEE-754 binary32 under    *)
(* the default MXCSR (round to nearest even, exceptions masked, no         *)
(* flush-to-zero, no denormals-are-zero).                                  *)
(***************************************************************************)
EXTENDS Integers, Sequences, FiniteSets, TLC

\* ------------------------------------------------------------------------
\* Bit patterns
\* ------------------------------------------------------------------------

Word(s, e, m) == [s |-> s, e |-> e, m |-> m]

ExpOnes == 2^8 - 1
ManOnes == 2^23 - 1
Hidden  == 2^23

AllZeros == Word(0, 0, 0)
AllOnes  == Word(1, ExpOnes, ManOnes)

PosZero  == Word(0, 0, 0)
NegZero  == Word(1, 0, 0)
PosInf   == Word(0, ExpOnes, 0)
NegInf   == Word(1, ExpOnes, 0)
\* The x86 "real indefinite" QNaN, produced by every masked invalid operation.
Indefinite == Word(1, ExpOnes, 2^22)

IsNaN(f)    == f.e = ExpOnes /\ f.m # 0
IsInf(f)    == f.e = ExpOnes /\ f.m = 0
IsZero(f)   == f.e = 0 /\ f.m = 0
IsSubnormal(f) == f.e = 0 /\ f.m # 0
IsFinite(f) == f.e # ExpOnes

\* A NaN operand is returned with its quiet bit (bit 22) set.
Quiet(f) == Word(f.s, f.e, IF f.m < 2^22 THEN f.m + 2^22 ELSE f.m)

\* Bits 30..0 as a number: the order of magnitudes is the order of these.
Mag(f) == f.e * 2^23 + f.m

\* A key whose order is the order of the (non-NaN) values; +0 and -0 agree.
Ord(f) == IF f.s = 0 THEN Mag(f) ELSE 0 - Mag(f)

\* ------------------------------------------------------------------------
\* Bitwise operations on fields
\* ------------------------------------------------------------------------

RECURSIVE BitAnd(_, _)
BitAnd(a, b) ==
  IF a = 0 \/ b = 0 THEN 0
  ELSE (a % 2) * (b % 2) + 2 * BitAnd(a \div 2, b \div 2)

RECURSIVE BitOr(_, _)
BitOr(a, b) ==
  IF a = 0 THEN b
  ELSE IF b = 0 THEN a
  ELSE (IF a % 2 = 1 \/ b % 2 = 1 THEN 1 ELSE 0) + 2 * BitOr(a \div 2, b \div 2)

RECURSIVE BitXor(_, _)
BitXor(a, b) ==
  IF a = 0 THEN b
  ELSE IF b = 0 THEN a
  ELSE (IF a % 2 # b % 2 THEN 1 ELSE 0) + 2 * BitXor(a \div 2, b \div 2)

\* _mm256_and_ps
and32(a, b) == Word(a.s * b.s, BitAnd(a.e, b.e), BitAnd(a.m, b.m))

\* _mm256_or_ps
or32(a, b) == Word(BitOr(a.s, b.s), BitOr(a.e, b.e), BitOr(a.m, b.m))

\* _mm256_xor_ps
xor32(a, b) == Word(BitXor(a.s, b.s), BitXor(a.e, b.e), BitXor(a.m, b.m))

\* The complement of every bit.
not32(a) == Word(1 - a.s, ExpOnes - a.e, ManOnes - a.m)

\* _mm256_andnot_ps(a, b) = (NOT a) AND b
andnot32(a, b) == and32(not32(a), b)

\* ------------------------------------------------------------------------
\* Comparisons (vcmpps): ordered, quiet; a mask of all ones or zeros
\* ------------------------------------------------------------------------

Mask(b) == IF b THEN AllOnes ELSE AllZeros

Ordered(a, b) == ~IsNaN(a) /\ ~IsNaN(b)

LtOQ(a, b) == Mask(Ordered(a, b) /\ Ord(a) < Ord(b))
GeOQ(a, b) == Mask(Ordered(a, b) /\ Ord(a) >= Ord(b))
GtOQ(a, b) == Mask(Ordered(a, b) /\ Ord(a) > Ord(b))

\* ------------------------------------------------------------------------
\* Rounding a value sig * 2^exp to binary32, round to nearest even
\* ------------------------------------------------------------------------

\* x shifted right by k bits, the bits shifted out OR-ed into bit 0.
ShrJam(x, k) ==
  IF k <= 0 THEN x
  ELSE IF k >= 30 THEN (IF x # 0 THEN 1 ELSE 0)
  ELSE LET q == x \div 2^k
       IN IF x % 2^k # 0 /\ q % 2 = 0 THEN q + 1 ELSE q

\* The number of bits of x (0 for 0).
RECURSIVE BitLen(_)
BitLen(x) == IF x = 0 THEN 0 ELSE 1 + BitLen(x \div 2)

\* The binary32 nearest to (-1)^s * sig * 2^exp, for 0 < sig < 2^30.  Bit 0 of
\* sig may be a sticky bit when sig has 26 bits or more.
RoundPack(s, sig, exp) ==
  LET n    == BitLen(sig)
      \* 27 bits: 24 of significand, then guard, round and sticky
      sig27 == IF n > 27 THEN ShrJam(sig, n - 27) ELSE sig * 2^(27 - n)
      exp27 == exp + (n - 27)
      \* biased exponent of a normal result
      E     == exp27 + 3 + 150
      sigd  == IF E < 1 THEN ShrJam(sig27, 1 - E) ELSE sig27
      Ed    == IF E < 1 THEN 1 ELSE E
      q     == sigd \div 8
      r     == sigd % 8
      up    == r > 4 \/ (r = 4 /\ q % 2 = 1)
      qr    == IF up THEN q + 1 ELSE q
  IN IF Ed > 254 THEN Word(s, ExpOnes, 0)
     ELSE LET w == (Ed - 1) * 2^23 + qr
          IN IF w >= ExpOnes * 2^23 THEN Word(s, ExpOnes, 0)
             ELSE Word(s, w \div 2^23, w % 2^23)

\* Significand and exponent of a finite non-zero float: value = Sig * 2^Exp.
Sig(f) == IF f.e = 0 THEN f.m ELSE Hidden + f.m
Exp(f) == IF f.e = 0 THEN 0 - 149 ELSE f.e - 150

\* The same, with the significand shifted up to 24 bits.
NSig(f) == Sig(f) * 2^(24 - BitLen(Sig(f)))
NExp(f) == Exp(f) - (24 - BitLen(Sig(f)))

Neg(f) == Word(1 - f.s, f.e, f.m)

\* ------------------------------------------------------------------------
\* mul32, add32, sub32, pmadd on one lane (vmulps, vaddps, vsubps)
\* ------------------------------------------------------------------------

\* The 48-bit product of two 24-bit significands as <<low 24 bits, high 24 bits>>.
MulWide(sa, sb) ==
  LET a1  == sa \div 2^12
      a0  == sa % 2^12
      b1  == sb \div 2^12
      b0  == sb % 2^12
      mid == a1 * b0 + a0 * b1
      t   == a0 * b0 + (mid % 2^12) * 2^12
  IN << t % 2^24, a1 * b1 + mid \div 2^12 + t \div 2^24 >>

\* The product reduced to 27 bits, the bits below OR-ed into bit 0.
MulSig(sa, sb) ==
  LET p   == MulWide(sa, sb)
      top == p[2] * 8 + p[1] \div 2^21
  IN IF p[1] % 2^21 # 0 /\ top % 2 = 0 THEN top + 1 ELSE top

mul32(a, b) ==
  LET s == IF a.s = b.s THEN 0 ELSE 1
  IN IF IsNaN(a) THEN Quiet(a)
     ELSE IF IsNaN(b) THEN Quiet(b)
     ELSE IF (IsInf(a) /\ IsZero(b)) \/ (IsZero(a) /\ IsInf(b)) THEN Indefinite
     ELSE IF IsInf(a) \/ IsInf(b) THEN Word(s, ExpOnes, 0)
     ELSE IF IsZero(a) \/ IsZero(b) THEN Word(s, 0, 0)
     ELSE RoundPack(s, MulSig(NSig(a), NSig(b)), NExp(a) + NExp(b) + 21)

add32(a, b) ==
  IF IsNaN(a) THEN Quiet(a)
  ELSE IF IsNaN(b) THEN Quiet(b)
  ELSE IF IsInf(a) /\ IsInf(b) THEN (IF a.s = b.s THEN a ELSE Indefinite)
  ELSE IF IsInf(a) THEN a
  ELSE IF IsInf(b) THEN b
  ELSE IF IsZero(a) /\ IsZero(b) THEN (IF a.s = b.s THEN a ELSE PosZero)
  ELSE IF IsZero(a) THEN b
  ELSE IF IsZero(b) THEN a
  ELSE LET ea == Exp(a)
           eb == Exp(b)
           e  == IF ea > eb THEN ea ELSE eb
           sa == ShrJam(Sig(a) * 8, e - ea)
           sb == ShrJam(Sig(b) * 8, e - eb)
       IN IF a.s = b.s THEN RoundPack(a.s, sa + sb, e - 3)
          ELSE IF sa = sb THEN PosZero
          ELSE IF sa > sb THEN RoundPack(a.s, sa - sb, e - 3)
          ELSE RoundPack(b.s, sb - sa, e - 3)

sub32(a, b) ==
  IF IsNaN(a) THEN Quiet(a)
  ELSE IF IsNaN(b) THEN Quiet(b)
  ELSE add32(a, Neg(b))

\* ------------------------------------------------------------------------
\* Exact division and square root (vdivps, vsqrtps), correctly rounded
\* ------------------------------------------------------------------------

\* n more quotient bits of rem / d by long division; the remainder is OR-ed
\* into bit 0 at the end.
RECURSIVE DivBits(_, _, _, _)
DivBits(q, rem, d, n) ==
  IF n = 0 THEN (IF rem # 0 /\ q % 2 = 0 THEN q + 1 ELSE q)
  ELSE IF 2 * rem >= d THEN DivBits(2 * q + 1, 2 * rem - d, d, n - 1)
  ELSE DivBits(2 * q, 2 * rem, d, n - 1)

div32(a, b) ==
  LET s == IF a.s = b.s THEN 0 ELSE 1
  IN IF IsNaN(a) THEN Quiet(a)
     ELSE IF IsNaN(b) THEN Quiet(b)
     ELSE IF (IsInf(a) /\ IsInf(b)) \/ (IsZero(a) /\ IsZero(b)) THEN Indefinite
     ELSE IF IsInf(a) \/ IsZero(b) THEN Word(s, ExpOnes, 0)
     ELSE IF IsInf(b) \/ IsZero(a) THEN Word(s, 0, 0)
     ELSE LET sa == NSig(a)
              sb == NSig(b)
              q  == DivBits(sa \div sb, sa % sb, sb, 27)
          IN RoundPack(s, q, NExp(a) - NExp(b) - 27)

\* n more bits of the square root, two radicand bits at a time; the radicand
\* is rad followed by zeros, pairs counts the pairs of rad still unread.
RECURSIVE SqrtBits(_, _, _, _, _)
SqrtBits(root, rem, rad, pairs, n) ==
  IF n = 0 THEN (IF rem # 0 /\ root % 2 = 0 THEN root + 1 ELSE root)
  ELSE LET pair == IF pairs > 0 THEN (rad \div 4^(pairs - 1)) % 4 ELSE 0
           r4   == 4 * rem + pair
           t    == 4 * root + 1
       IN IF r4 >= t
          THEN SqrtBits(2 * root + 1, r4 - t, rad, pairs - 1, n - 1)
          ELSE SqrtBits(2 * root, r4, rad, pairs - 1, n - 1)

sqrt32(a) ==
  IF IsNaN(a) THEN Quiet(a)
  ELSE IF IsZero(a) THEN a
  ELSE IF a.s = 1 THEN Indefinite
  ELSE IF IsInf(a) THEN a
  ELSE LET odd == NExp(a) % 2 = 1
           rad == IF odd THEN 2 * NSig(a) ELSE NSig(a)
           e2  == IF odd THEN NExp(a) - 1 ELSE NExp(a)
           \* floor(sqrt(rad * 4^14)) with the remainder as sticky bit
           r   == SqrtBits(0, 0, rad, 13, 27)
       IN RoundPack(0, r, (e2 \div 2) - 14)

\* ------------------------------------------------------------------------
\* floor, conversion to integer, integer shift
\* ------------------------------------------------------------------------

\* _mm256_floor_ps
floor32(f) ==
  IF IsNaN(f) THEN Quiet(f)
  ELSE IF IsInf(f) \/ IsZero(f) \/ f.e >= 150 THEN f
  ELSE IF f.e < 127 THEN (IF f.s = 0 THEN PosZero ELSE Word(1, 127, 0))
  ELSE LET k  == 150 - f.e
           q  == Sig(f) \div 2^k
           fr == Sig(f) % 2^k
           n  == IF f.s = 1 /\ fr # 0 THEN q + 1 ELSE q
       IN RoundPack(f.s, n, 0)

\* The 32-bit two's complement word of the integer (-1)^s * n, 0 <= n < 2^31.
IntWord(s, n) ==
  IF n = 0 THEN AllZeros
  ELSE LET t == IF s = 0 THEN n ELSE ((2^30 - 1) * 2 + 1 - n) + 1
       IN Word(s, t \div 2^23, t % 2^23)

\* The x86 "integer indefinite" 0x80000000.
IntIndefinite == Word(1, 0, 0)

\* _mm256_cvtps_epi32: the nearest integer, ties to even; the integer
\* indefinite for NaN, infinity and values outside the int32 range.
cvt32(f) ==
  IF ~IsFinite(f) \/ f.e >= 158 THEN IntIndefinite
  ELSE IF IsZero(f) THEN AllZeros
  ELSE IF Exp(f) >= 0 THEN IntWord(f.s, Sig(f) * 2^Exp(f))
  ELSE LET k == 0 - Exp(f)
       IN IF k > 25 THEN AllZeros
          ELSE LET q  == Sig(f) \div 2^k
                   r  == Sig(f) % 2^k
                   h  == 2^(k - 1)
                   up == r > h \/ (r = h /\ q % 2 = 1)
               IN IntWord(f.s, IF up THEN q + 1 ELSE q)

\* Bit i (0..31) of a word.
Bit(w, i) ==
  IF i = 31 THEN w.s
  ELSE IF i >= 23 THEN (w.e \div 2^(i - 23)) % 2
  ELSE (w.m \div 2^i) % 2

RECURSIVE SumBits(_, _, _)
\* The number whose bit j is b[lo + j], for j in 0..n-1.
SumBits(b, lo, n) ==
  IF n = 0 THEN 0 ELSE b[lo] + 2 * SumBits(b, lo + 1, n - 1)

\* One 32-bit lane shifted left by n bits, zeros shifted in (vpslld).
slli32(v, n) ==
  LET b == [i \in 0..31 |-> IF i >= n THEN Bit(v, i - n) ELSE 0]
  IN Word(b[31], SumBits(b, 23, 8), SumBits(b, 0, 23))

\* ------------------------------------------------------------------------
\* Fused multiply-add (vfmadd231ps): a * b + c rounded once.  The exact sum
\* is formed in numbers of four 24-bit limbs, least significant first.
\* ------------------------------------------------------------------------

Limb == 2^24

WOne == <<1, 0, 0, 0>>

WGet(x, i) == IF i >= 1 /\ i <= 4 THEN x[i] ELSE 0

WShl(x, k) ==
  LET j == k \div 24
      r == k % 24
      y == [i \in 1..4 |-> WGet(x, i - j)]
  IN [i \in 1..4 |-> (y[i] % 2^(24 - r)) * 2^r + WGet(y, i - 1) \div 2^(24 - r)]

WAdd(x, y) ==
  LET s1 == x[1] + y[1]
      s2 == x[2] + y[2] + s1 \div Limb
      s3 == x[3] + y[3] + s2 \div Limb
      s4 == x[4] + y[4] + s3 \div Limb
  IN <<s1 % Limb, s2 % Limb, s3 % Limb, s4>>

\* x - y for x >= y
WSub(x, y) ==
  LET d1 == x[1] - y[1]
      b1 == IF d1 < 0 THEN 1 ELSE 0
      d2 == x[2] - y[2] - b1
      b2 == IF d2 < 0 THEN 1 ELSE 0
      d3 == x[3] - y[3] - b2
      b3 == IF d3 < 0 THEN 1 ELSE 0
  IN <<d1 + b1 * Limb, d2 + b2 * Limb, d3 + b3 * Limb, x[4] - y[4] - b3>>

WLess(x, y) ==
  \E i \in 1..4 : x[i] < y[i] /\ \A j \in (i + 1)..4 : x[j] = y[j]

WBitLen(x) ==
  IF x[4] # 0 THEN 72 + BitLen(x[4])
  ELSE IF x[3] # 0 THEN 48 + BitLen(x[3])
  ELSE IF x[2] # 0 THEN 24 + BitLen(x[2])
  ELSE BitLen(x[1])

\* The low 30 bits of x shifted right by k, the bits shifted out OR-ed into
\* bit 0.
WShrJam(x, k) ==
  LET j  == k \div 24
      r  == k % 24
      l1 == WGet(x, 1 + j) \div 2^r + (WGet(x, 2 + j) % 2^r) * 2^(24 - r)
      l2 == WGet(x, 2 + j) \div 2^r + (WGet(x, 3 + j) % 2^r) * 2^(24 - r)
      q  == l1 + (l2 % 2^6) * Limb
      lost == (\E i \in 1..j : x[i] # 0) \/ WGet(x, 1 + j) % 2^r # 0
  IN IF lost /\ q % 2 = 0 THEN q + 1 ELSE q

fma32(a, b, c) ==
  LET sp == IF a.s = b.s THEN 0 ELSE 1
  IN IF IsNaN(a) THEN Quiet(a)
     ELSE IF IsNaN(b) THEN Quiet(b)
     ELSE IF IsNaN(c) THEN Quiet(c)
     ELSE IF (IsInf(a) /\ IsZero(b)) \/ (IsZero(a) /\ IsInf(b)) THEN Indefinite
     ELSE IF IsInf(a) \/ IsInf(b)
          THEN (IF IsInf(c) /\ c.s # sp THEN Indefinite ELSE Word(sp, ExpOnes, 0))
     ELSE IF IsInf(c) THEN c
     ELSE IF IsZero(a) \/ IsZero(b)
          THEN (IF IsZero(c) /\ c.s # sp THEN PosZero ELSE c)
     ELSE IF IsZero(c) THEN mul32(a, b)
     ELSE LET p  == MulWide(NSig(a), NSig(b))
              ep == NExp(a) + NExp(b)
              ec == NExp(c)
              d  == ec - ep
              \* product and addend in units of 2^e0; an operand below one
              \* unit is the sticky bit 1
              e0 == IF d > 50 THEN ec - 3
                    ELSE IF d < 0 - 26 THEN ep - 3
                    ELSE IF d < 0 THEN ec ELSE ep
              PW == IF d > 50 THEN WOne
                    ELSE IF d < 0 - 26 THEN WShl(<<p[1], p[2], 0, 0>>, 3)
                    ELSE WShl(<<p[1], p[2], 0, 0>>, ep - e0)
              CW == IF d > 50 THEN WShl(<<NSig(c), 0, 0, 0>>, 3)
                    ELSE IF d < 0 - 26 THEN WOne
                    ELSE WShl(<<NSig(c), 0, 0, 0>>, ec - e0)
              Z  == IF sp = c.s THEN WAdd(PW, CW)
                    ELSE IF WLess(PW, CW) THEN WSub(CW, PW) ELSE WSub(PW, CW)
              s  == IF sp = c.s THEN sp ELSE IF WLess(PW, CW) THEN c.s ELSE sp
              n  == WBitLen(Z)
          IN IF n = 0 THEN PosZero
             ELSE IF n > 27 THEN RoundPack(s, WShrJam(Z, n - 27), e0 + n - 27)
             ELSE RoundPack(s, WShrJam(Z, 0), e0)

\* ------------------------------------------------------------------------
\* The hardware estimate of 1/sqrt (vrsqrtps).  Its relative error is at
\* most 1.5 * 2^-12; the value is fixed by the processor.  rsqrt_hw selects
\* among three processors: the estimate is 1/sqrt(a) cut to 13 fraction bits
\* (0), or that value one step of 2^-13 below (-1) or above (1).
\* ------------------------------------------------------------------------

One32 == Word(0, 127, 0)

rsqrt32(hw, a) ==
  IF IsNaN(a) THEN Quiet(a)
  \* a zero, or a denormal (read as a zero of its sign), gives an infinity
  ELSE IF a.e = 0 THEN Word(a.s, ExpOnes, 0)
  ELSE IF a.s = 1 THEN Indefinite
  ELSE IF IsInf(a) THEN PosZero
  ELSE LET r == div32(One32, sqrt32(a))
           g == Mag(r) - (Mag(r) % 2^10) + hw * 2^10
       IN Word(0, g \div 2^23, g % 2^23)

\* ------------------------------------------------------------------------
\* Packets: Packet8f and Packet8i are functions from 1..Lanes to lanes
\* ------------------------------------------------------------------------

Lanes == 8

pset1(v) == [i \in 1..Lanes |-> v]

pmul(a, b) == [i \in 1..Lanes |-> mul32(a[i], b[i])]
padd(a, b) == [i \in 1..Lanes |-> add32(a[i], b[i])]
psub(a, b) == [i \in 1..Lanes |-> sub32(a[i], b[i])]

\* pmadd(a, b, c) = a * b + c: one fused instruction in a build with FMA,
\* a multiplication and an addition otherwise.
pmadd(fma, a, b, c) ==
  IF fma THEN [i \in 1..Lanes |-> fma32(a[i], b[i], c[i])]
  ELSE padd(pmul(a, b), c)

mm256_and_ps(a, b)    == [i \in 1..Lanes |-> and32(a[i], b[i])]
mm256_andnot_ps(a, b) == [i \in 1..Lanes |-> andnot32(a[i], b[i])]
mm256_or_ps(a, b)     == [i \in 1..Lanes |-> or32(a[i], b[i])]
mm256_xor_ps(a, b)    == [i \in 1..Lanes |-> xor32(a[i], b[i])]
mm256_setzero_ps      == pset1(AllZeros)
mm256_floor_ps(a)     == [i \in 1..Lanes |-> floor32(a[i])]
mm256_cvtps_epi32(a)  == [i \in 1..Lanes |-> cvt32(a[i])]
mm256_sqrt_ps(a)      == [i \in 1..Lanes |-> sqrt32(a[i])]
mm256_div_ps(a, b)    == [i \in 1..Lanes |-> div32(a[i], b[i])]
mm256_rsqrt_ps(hw, a) == [i \in 1..Lanes |-> rsqrt32(hw, a[i])]

mm256_cmp_ps(a, b, pred) ==
  IF pred = "CMP_LT_OQ" THEN [i \in 1..Lanes |-> LtOQ(a[i], b[i])]
  ELSE IF pred = "CMP_GE_OQ" THEN [i \in 1..Lanes |-> GeOQ(a[i], b[i])]
  ELSE [i \in 1..Lanes |-> GtOQ(a[i], b[i])]

\* A bit cast between Packet8f and Packet8i: the bits are unchanged.
mm256_castps_si256(a) == a
mm256_castsi256_ps(a) == a

\* pshiftleft with the lower half extracted twice.
pshiftleft_lower_twice(avx2, v, n) ==
  IF avx2 THEN [i \in 1..Lanes |-> slli32(v[i], n)]
  ELSE LET h  == Lanes \div 2
           lo == [i \in 1..h |-> slli32(v[i], n)]
           hi == [i \in 1..(Lanes - h) |-> slli32(v[i], n)]
       IN [i \in 1..Lanes |-> IF i <= h THEN lo[i] ELSE hi[i - h]]

\* pshiftleft: one 256-bit shift with AVX2, otherwise the two 128-bit halves
\* are extracted, shifted and put together again.
pshiftleft(avx2, v, n) ==
  IF avx2 THEN [i \in 1..Lanes |-> slli32(v[i], n)]
  ELSE LET h  == Lanes \div 2
           lo == [i \in 1..h |-> slli32(v[i], n)]
           hi == [i \in 1..(Lanes - h) |-> slli32(v[h + i], n)]
       IN [i \in 1..Lanes |-> IF i <= h THEN lo[i] ELSE hi[i - h]]

\* _EIGEN_DECLARE_CONST_Packet8f_FROM_INT: the lane with the bits of n < 2^31
FromInt(n) == Word(0, n \div 2^23, n % 2^23)

\* ------------------------------------------------------------------------
\* psin<Packet8f>
\* ------------------------------------------------------------------------

p8i_one           == pset1(IntWord(0, 1))
p8f_one           == pset1(Word(0, 127, 0))        \* 1.0f
p8f_two           == pset1(Word(0, 128, 0))        \* 2.0f
\* one_over_four declared as 0.5f
p8f_one_over_four_half == pset1(Word(0, 126, 0))
p8f_one_over_four == pset1(Word(0, 125, 0))        \* 0.25f
p8f_one_over_pi   == pset1(Word(0, 125, 2292099))  \* 3.183098861837907e-01f
p8f_neg_pi_first  == pset1(Word(1, 128, 4784128))  \* -3.140625000000000e+00f
p8f_neg_pi_second == pset1(Word(1, 116, 8224768))  \* -9.670257568359375e-04f
p8f_neg_pi_third  == pset1(Word(1, 106, 2656346))  \* -6.278329571784980e-07f
p8f_four_over_pi  == pset1(Word(0, 127, 2292099))  \* 1.273239544735163e+00f

p8f_coeff_right_0 == pset1(Word(0, 127, 0))        \* 9.999999724233232e-01f
p8f_coeff_right_2 == pset1(Word(1, 125, 1960393))  \* -3.084242535619928e-01f
p8f_coeff_right_4 == pset1(Word(0, 121, 120750))   \* 1.584991525700324e-02f
p8f_coeff_right_6 == pset1(Word(1, 115, 2568043))  \* -3.188805084631342e-04f

p8f_coeff_left_1  == pset1(Word(0, 126, 4788186))  \* 7.853981525427295e-01f
p8f_coeff_left_3  == pset1(Word(1, 123, 2448852))  \* -8.074536727092352e-02f
p8f_coeff_left_5  == pset1(Word(0, 118, 2305311))  \* 2.489871967827018e-03f
p8f_coeff_left_7  == pset1(Word(1, 112, 1473258))  \* -3.587725841214251e-05f

\* The locals of a call are a record; a statement gives one local its value.
Assign(r, k, v) == (k :> v) @@ r

\* The statements of psin in the order of the source.  left_poly, right_poly
\* and res0 keep the values of left, right and res from before the statement
\* that overwrites them.
psin_x(x_)          == [impl |-> "psin", x |-> x_]
psin_z(r)           == Assign(r, "z", pmul(r.x, p8f_one_over_pi))
psin_shift(r)       ==
  Assign(r, "shift", mm256_floor_ps(padd(r.z, p8f_one_over_four)))
psin_x_first(fma, r)  ==
  Assign(r, "x", pmadd(fma, r.shift, p8f_neg_pi_first, r.x))
psin_x_second(fma, r) ==
  Assign(r, "x", pmadd(fma, r.shift, p8f_neg_pi_second, r.x))
psin_x_third(fma, r)  ==
  Assign(r, "x", pmadd(fma, r.shift, p8f_neg_pi_third, r.x))
psin_z_reduced(r)   == Assign(r, "z", pmul(r.x, p8f_four_over_pi))

psin_shift_ints(r)  == Assign(r, "shift_ints", mm256_cvtps_epi32(r.shift))
psin_shift_isodd(r) ==
  Assign(r, "shift_isodd",
         mm256_castps_si256(mm256_and_ps(mm256_castsi256_ps(r.shift_ints),
                                         mm256_castsi256_ps(p8i_one))))
psin_sign_flip_mask(avx2, r) ==
  Assign(r, "sign_flip_mask", pshiftleft(avx2, r.shift_isodd, 31))

psin_ival_mask(r)   ==
  Assign(r, "ival_mask", mm256_cmp_ps(r.z, p8f_one, "CMP_GT_OQ"))

psin_z_minus_two(r)  == Assign(r, "z_minus_two", psub(r.z, p8f_two))
psin_z_minus_two2(r) ==
  Assign(r, "z_minus_two2", pmul(r.z_minus_two, r.z_minus_two))
psin_right_6(fma, r) ==
  Assign(r, "right",
         pmadd(fma, p8f_coeff_right_6, r.z_minus_two2, p8f_coeff_right_4))
psin_right_2(fma, r) ==
  Assign(r, "right", pmadd(fma, r.right, r.z_minus_two2, p8f_coeff_right_2))
psin_right_0(fma, r) ==
  Assign(r, "right", pmadd(fma, r.right, r.z_minus_two2, p8f_coeff_right_0))

psin_z2(r)          == Assign(r, "z2", pmul(r.z, r.z))
psin_left_7(fma, r) ==
  Assign(r, "left", pmadd(fma, p8f_coeff_left_7, r.z2, p8f_coeff_left_5))
psin_left_3(fma, r) ==
  Assign(r, "left", pmadd(fma, r.left, r.z2, p8f_coeff_left_3))
psin_left_1(fma, r) ==
  Assign(r, "left", pmadd(fma, r.left, r.z2, p8f_coeff_left_1))
psin_left_z(r)      == Assign(r, "left", pmul(r.left, r.z))

psin_select_left(r)  ==
  Assign(Assign(r, "left_poly", r.left),
         "left", mm256_andnot_ps(r.ival_mask, r.left))
psin_select_right(r) ==
  Assign(Assign(r, "right_poly", r.right),
         "right", mm256_and_ps(r.ival_mask, r.right))
psin_res(r)          == Assign(r, "res", mm256_or_ps(r.left, r.right))

psin_flip(r) ==
  Assign(Assign(r, "res0", r.res),
         "res", mm256_xor_ps(r.res, mm256_castsi256_ps(r.sign_flip_mask)))

\* The locals at the return of psin(x_); res is the value returned.
psin(fma, avx2, x_) ==
  psin_flip(psin_res(psin_select_right(psin_select_left(
  psin_left_z(psin_left_1(fma, psin_left_3(fma, psin_left_7(fma, psin_z2(
  psin_right_0(fma, psin_right_2(fma, psin_right_6(fma,
  psin_z_minus_two2(psin_z_minus_two(
  psin_ival_mask(
  psin_sign_flip_mask(avx2, psin_shift_isodd(psin_shift_ints(
  psin_z_reduced(psin_x_third(fma, psin_x_second(fma, psin_x_first(fma,
  psin_shift(psin_z(psin_x(x_)))))))))))))))))))))))))

\* ------------------------------------------------------------------------
\* psqrt<Packet8f>
\* ------------------------------------------------------------------------

\* std::numeric_limits<float>::epsilon() in the place of min()
numeric_limits_epsilon == Word(0, 104, 0)

\* (std::numeric_limits<float>::min)(): the least positive normal float
numeric_limits_min == Word(0, 1, 0)

\* The statements of the fast psqrt.  prod is the product pmul(_x, x) in the
\* return statement.
psqrt_half(x_) ==
  [impl |-> "psqrt_fast", x_ |-> x_,
   half |-> pmul(x_, pset1(Word(0, 126, 0)))]   \* .5f

\* denormal_mask with _CMP_GT_OQ in the place of _CMP_LT_OQ
psqrt_denormal_mask_gt(r) ==
  Assign(r, "denormal_mask",
         mm256_and_ps(mm256_cmp_ps(r.x_, pset1(numeric_limits_min), "CMP_GT_OQ"),
                      mm256_cmp_ps(r.x_, mm256_setzero_ps, "CMP_GE_OQ")))

psqrt_denormal_mask(r) ==
  Assign(r, "denormal_mask",
         mm256_and_ps(mm256_cmp_ps(r.x_, pset1(numeric_limits_min), "CMP_LT_OQ"),
                      mm256_cmp_ps(r.x_, mm256_setzero_ps, "CMP_GE_OQ")))

psqrt_rsqrt(hw, r)  == Assign(r, "x", mm256_rsqrt_ps(hw, r.x_))
psqrt_newton(r)     ==
  Assign(r, "x", pmul(r.x, psub(pset1(Word(0, 127, 4194304)),   \* 1.5f
                                pmul(r.half, pmul(r.x, r.x)))))
psqrt_prod(r)       == Assign(r, "prod", pmul(r.x_, r.x))
psqrt_flush(r)      ==
  Assign(r, "res", mm256_andnot_ps(r.denormal_mask, r.prod))

\* EIGEN_FAST_MATH: the estimate and one step of Newton's iteration
psqrt_fast(fma, hw, x_) ==
  psqrt_flush(psqrt_prod(psqrt_newton(psqrt_rsqrt(hw,
  psqrt_denormal_mask(psqrt_half(x_))))))

psqrt_exact(x) ==
  [impl |-> "psqrt_exact", res |-> mm256_sqrt_ps(x)]

\* ------------------------------------------------------------------------
\* prsqrt<Packet8f>
\* ------------------------------------------------------------------------

p8f_inf            == pset1(FromInt(2139095040))   \* 0x7f800000
p8f_nan            == pset1(FromInt(2143289344))   \* 0x7fc00000
p8f_one_point_five == pset1(Word(0, 127, 4194304)) \* 1.5f
p8f_minus_half     == pset1(Word(1, 126, 0))       \* -0.5f
p8f_flt_min        == pset1(FromInt(8388608))      \* 0x00800000

\* The statements of the fast prsqrt.
prsqrt_neg_half(x_) ==
  [impl |-> "prsqrt_fast", x_ |-> x_, neg_half |-> pmul(x_, p8f_minus_half)]
prsqrt_le_zero_mask(r) ==
  Assign(r, "le_zero_mask", mm256_cmp_ps(r.x_, p8f_flt_min, "CMP_LT_OQ"))
prsqrt_rsqrt(hw, r) ==
  Assign(r, "x", mm256_andnot_ps(r.le_zero_mask, mm256_rsqrt_ps(hw, r.x_)))
prsqrt_neg_mask(r) ==
  Assign(r, "neg_mask", mm256_cmp_ps(r.x_, mm256_setzero_ps, "CMP_LT_OQ"))
prsqrt_zero_mask(r) ==
  Assign(r, "zero_mask", mm256_andnot_ps(r.neg_mask, r.le_zero_mask))
prsqrt_infs_and_nans(r) ==
  Assign(r, "infs_and_nans",
         mm256_or_ps(mm256_and_ps(r.neg_mask, p8f_nan),
                     mm256_and_ps(r.zero_mask, p8f_inf)))
prsqrt_newton(fma, r) ==
  Assign(r, "x",
         pmul(r.x, pmadd(fma, r.neg_half, pmul(r.x, r.x), p8f_one_point_five)))
prsqrt_insert(r) == Assign(r, "res", mm256_or_ps(r.x, r.infs_and_nans))

prsqrt_fast(fma, hw, x_) ==
  prsqrt_insert(prsqrt_newton(fma, prsqrt_infs_and_nans(prsqrt_zero_mask(
  prsqrt_neg_mask(prsqrt_rsqrt(hw, prsqrt_le_zero_mask(
  prsqrt_neg_half(x_))))))))

prsqrt_div(x) ==
  [impl |-> "prsqrt_div", res |-> mm256_div_ps(p8f_one, mm256_sqrt_ps(x))]

\* ------------------------------------------------------------------------
\* The translation unit: which definitions of psqrt and prsqrt a build has
\* ------------------------------------------------------------------------

Directive(kind) == [kind |-> kind, name |-> "", packet |-> "", body |-> ""]
Def(name, packet, body) ==
  [kind |-> "def", name |-> name, packet |-> packet, body |-> body]

\* The template specialisations of the file in order, with the
\* "#if EIGEN_FAST_MATH", "#else" and "#endif" lines between them.
TranslationUnit ==
  << Def("psin",   "Packet8f", "psin"),
     Def("plog",   "Packet8f", "plog_float"),
     Def("pexp",   "Packet8f", "pexp_float"),
     Def("ptanh",  "Packet8f", "generic_fast_tanh_float"),
     Def("pexp",   "Packet4d", "pexp_double"),
     Directive("if"),
     Def("psqrt",  "Packet8f", "psqrt_fast"),
     Directive("else"),
     Def("psqrt",  "Packet8f", "psqrt_exact"),
     Directive("endif"),
     Def("psqrt",  "Packet4d", "mm256_sqrt_pd"),
     Directive("if"),
     Def("prsqrt", "Packet8f", "prsqrt_fast"),
     Directive("else"),
     Def("prsqrt", "Packet8f", "prsqrt_div"),
     Directive("endif"),
     Def("prsqrt", "Packet4d", "mm256_div_pd(one, mm256_sqrt_pd)") >>

\* Preprocess with "#else" read as an empty line.
RECURSIVE Preprocess_else_ignored(_, _, _, _)
Preprocess_else_ignored(tu, i, active, fast_math) ==
  IF i > Len(tu) THEN {}
  ELSE IF tu[i].kind = "if"
       THEN Preprocess_else_ignored(tu, i + 1, fast_math, fast_math)
  ELSE IF tu[i].kind = "else"
       THEN Preprocess_else_ignored(tu, i + 1, active, fast_math)
  ELSE IF tu[i].kind = "endif"
       THEN Preprocess_else_ignored(tu, i + 1, TRUE, fast_math)
  ELSE (IF active THEN {tu[i]} ELSE {})
         \cup Preprocess_else_ignored(tu, i + 1, active, fast_math)

\* The definitions the preprocessor lets through from position i on; active
\* tells whether the text at position i is compiled.
RECURSIVE Preprocess(_, _, _, _)
Preprocess(tu, i, active, fast_math) ==
  IF i > Len(tu) THEN {}
  ELSE IF tu[i].kind = "if" THEN Preprocess(tu, i + 1, fast_math, fast_math)
  ELSE IF tu[i].kind = "else" THEN Preprocess(tu, i + 1, ~active, fast_math)
  ELSE IF tu[i].kind = "endif" THEN Preprocess(tu, i + 1, TRUE, fast_math)
  ELSE (IF active THEN {tu[i]} ELSE {})
         \cup Preprocess(tu, i + 1, active, fast_math)

\* The definitions of name<packet> in a set of definitions.
Lookup(ds, name, packet) == {d \in ds : d.name = name /\ d.packet = packet}

\* ------------------------------------------------------------------------
\* Inputs
\* ------------------------------------------------------------------------

\* Lane values for psqrt and prsqrt.
RootValues ==
  << Word(0, 129, 0),           \* 4.0
     Word(0, 127, 0),           \* 1.0
     PosZero,                   \* 0.0
     Word(1, 127, 0),           \* -1.0
     NegZero,
     Word(0, 0, 1),             \* the least positive denormal
     Word(0, 0, ManOnes),       \* the greatest denormal
     Word(0, 1, 0),             \* the least positive normal float
     Word(0, 254, ManOnes),     \* the greatest finite float
     PosInf,
     NegInf,
     Word(0, ExpOnes, 2^22),    \* a quiet NaN
     Word(1, 0, 1),             \* the negative denormal nearest zero
     Word(1, 254, ManOnes),     \* the least finite float
     Word(0, 128, 0),           \* 2.0
     Word(1, ExpOnes, 1),       \* a signalling NaN with the sign bit set
     Word(0, 128, 4194304) >>   \* 3.0

\* Lane values for psin.
SinValues ==
  << PosZero,
     Word(0, 127, 4788187),     \* pi/2
     Word(0, 128, 4788187),     \* pi
     Word(0, 129, 1493988),     \* 3*pi/2
     Word(1, 127, 4788187),     \* -pi/2
     Word(0, 136, 7995392),     \* 1000.0
     NegZero,
     Word(0, 128, 1493988),     \* 3*pi/4
     Word(1, 150, 1),           \* -(2^23 + 1)
     Word(0, 160, 0),           \* 2^33
     PosInf,
     Word(0, ExpOnes, 2^22),    \* a quiet NaN
     Word(1, 126, 4788187),     \* -pi/4
     Word(0, 0, 1),             \* the least positive denormal
     Word(1, 129, 1493988) >>   \* -3*pi/2

\* How many of the lane values are used.
NumRootValues == 14
NumSinValues  == 12

Min(a, b) == IF a < b THEN a ELSE b

\* The packet whose lanes run through the first n values of vals from
\* position i on in steps of d.
PacketOf(vals, n, i, d) ==
  [k \in 1..Lanes |-> vals[((i + d * (k - 1)) % n) + 1]]

PacketsOf(vals, n) ==
  {PacketOf(vals, n, i, d) : i \in 0..(n - 1), d \in 0..(n - 1)}

RootPackets == PacketsOf(RootValues, Min(NumRootValues, Len(RootValues)))
SinPackets  == PacketsOf(SinValues, Min(NumSinValues, Len(SinValues)))

\* ------------------------------------------------------------------------
\* State
\* ------------------------------------------------------------------------

VARIABLES
  EIGEN_FAST_MATH,       \* the build's configuration flag
  FMA,                   \* the build has fused multiply-add (__FMA__)
  EIGEN_VECTORIZE_AVX2,  \* the build has AVX2
  rsqrt_hw,              \* the processor's estimate of 1/sqrt
  defs,                  \* the definitions the build compiled
  x,                     \* the argument packet
  fn,                    \* the function called last, "none" before any call
  loc                    \* the locals of that call; loc.res is its result

vars == <<EIGEN_FAST_MATH, FMA, EIGEN_VECTORIZE_AVX2, rsqrt_hw, defs, x, fn, loc>>

Build ==
  /\ EIGEN_FAST_MATH \in BOOLEAN
  /\ FMA \in BOOLEAN
  /\ EIGEN_VECTORIZE_AVX2 \in BOOLEAN
  /\ rsqrt_hw \in {0 - 1, 0, 1}
  /\ defs = Preprocess(TranslationUnit, 1, TRUE, EIGEN_FAST_MATH)
  /\ fn = "none"
  /\ loc = [impl |-> "none", res |-> x]

\* A build and an argument for the root functions, which do not use
\* pshiftleft.
Init ==
  /\ x \in RootPackets
  /\ Build
  /\ EIGEN_VECTORIZE_AVX2

\* A build and an argument for psin, which reads neither EIGEN_FAST_MATH nor
\* the estimate of 1/sqrt.
InitSin ==
  /\ x \in SinPackets
  /\ Build
  /\ EIGEN_FAST_MATH
  /\ rsqrt_hw = 0

Same == UNCHANGED <<EIGEN_FAST_MATH, FMA, EIGEN_VECTORIZE_AVX2, rsqrt_hw, defs, x>>

\* A call psqrt<Packet8f>(x): the build's definition runs.
Call_psqrt ==
  /\ \E d \in Lookup(defs, "psqrt", "Packet8f") :
       loc' = IF d.body = "psqrt_fast" THEN psqrt_fast(FMA, rsqrt_hw, x)
              ELSE psqrt_exact(x)
  /\ fn' = "psqrt"
  /\ Same

\* A call prsqrt<Packet8f>(x).
Call_prsqrt ==
  /\ \E d \in Lookup(defs, "prsqrt", "Packet8f") :
       loc' = IF d.body = "prsqrt_fast" THEN prsqrt_fast(FMA, rsqrt_hw, x)
              ELSE prsqrt_div(x)
  /\ fn' = "prsqrt"
  /\ Same

\* A call psin<Packet8f>(x).
Call_psin ==
  /\ \E d \in Lookup(defs, "psin", "Packet8f") :
       loc' = psin(FMA, EIGEN_VECTORIZE_AVX2, x)
  /\ fn' = "psin"
  /\ Same

Next == Call_psqrt \/ Call_prsqrt

NextSin == Call_psin

Spec == Init /\ [][Next]_vars

SpecSin == InitSin /\ [][NextSin]_vars

\* ------------------------------------------------------------------------
\* Properties
\* ------------------------------------------------------------------------

L == 1..Lanes

\* The classes of lane values the properties speak of, read off the bits.
IsNegative(f)   == f.s = 1 /\ ~IsNaN(f) /\ ~IsZero(f)
\* +0, -0 and the positive denormals: 0 <= f < the least normal float
InZeroRange(f)  == f.e = 0 /\ (f.s = 0 \/ f.m = 0)
\* the least normal float <= f, +Infinity included
IsNormalOrInf(f) == f.s = 0 /\ f.e >= 1 /\ ~IsNaN(f)
IsMask(w)       == w = AllOnes \/ w = AllZeros

QuietNaN == Word(0, ExpOnes, 2^22)   \* 0x7fc00000

FastPrsqrt == fn = "prsqrt" /\ EIGEN_FAST_MATH
FastPsqrt  == fn = "psqrt" /\ EIGEN_FAST_MATH

\* C1: in fast mode prsqrt returns exactly 0x7fc00000 in every lane whose
\* input is negative (-Infinity included) and exactly 0x7f800000 in every
\* lane whose input is +0, -0 or a positive denormal.
C1_SpecialValues ==
  FastPrsqrt =>
    \A i \in L :
      /\ IsNegative(x[i]) => loc.res[i] = QuietNaN
      /\ InZeroRange(x[i]) => loc.res[i] = PosInf

\* C2: in fast mode prsqrt the lane classes neg_mask, zero_mask and neither
\* are disjoint, they are the lanes with input < 0 and with
\* 0 <= input < least normal, and the two operands of the final OR are never
\* both non-zero in a lane: the refined estimate is all zeros in the lanes of
\* the two special classes and infs_and_nans is all zeros in the others.
C2_OneValuePerLane ==
  FastPrsqrt =>
    \A i \in L :
      /\ IsMask(loc.neg_mask[i]) /\ IsMask(loc.zero_mask[i])
      /\ ~(loc.neg_mask[i] = AllOnes /\ loc.zero_mask[i] = AllOnes)
      /\ loc.neg_mask[i] = AllOnes <=> IsNegative(x[i])
      /\ loc.zero_mask[i] = AllOnes <=> InZeroRange(x[i])
      /\ (IsNegative(x[i]) \/ InZeroRange(x[i])) => loc.x[i] = AllZeros
      /\ ~(IsNegative(x[i]) \/ InZeroRange(x[i]))
           => loc.infs_and_nans[i] = AllZeros
      /\ loc.x[i] = AllZeros \/ loc.infs_and_nans[i] = AllZeros

\* C3: in fast mode psqrt returns all-zero bits in every lane whose input is
\* +0, -0 or a positive denormal, whatever the estimate and the Newton step
\* gave there, and input * x1 unchanged in every other lane.
C3_FlushToZero ==
  FastPsqrt =>
    \A i \in L :
      IF InZeroRange(x[i]) THEN loc.res[i] = AllZeros
      ELSE loc.res[i] = mul32(x[i], loc.x[i])

\* C3 happens: a call where the multiply path left a non-zero value in a
\* denormal lane and in a zero lane, next to a lane that is not flushed.
C3_Witness ==
  /\ FastPsqrt
  /\ \E i \in L : IsSubnormal(x[i]) /\ x[i].s = 0 /\ loc.prod[i] # AllZeros
  /\ \E i \in L : IsZero(x[i]) /\ loc.prod[i] # AllZeros
  /\ \E i \in L : ~InZeroRange(x[i]) /\ loc.res[i] # AllZeros

\* C4: for a lane +Infinity fast psqrt does not return +Infinity: the lane is
\* not in the denormal mask and the estimate, Newton and multiply path gives
\* another value; the exact psqrt returns +Infinity there.
C4_InfinityMishandled ==
  fn = "psqrt" =>
    \A i \in L :
      x[i] = PosInf =>
        IF EIGEN_FAST_MATH
        THEN /\ loc.denormal_mask[i] = AllZeros
             /\ loc.res[i] = mul32(x[i], loc.x[i])
             /\ loc.res[i] # PosInf
        ELSE loc.res[i] = PosInf

\* C4 happens: fast psqrt was called with a lane +Infinity and returned a NaN.
C4_Witness ==
  /\ FastPsqrt
  /\ \E i \in L : x[i] = PosInf /\ IsNaN(loc.res[i])

\* C5: whatever the value of EIGEN_FAST_MATH, a build has exactly one
\* psqrt<Packet8f> and one prsqrt<Packet8f>, the fast one iff the flag is set
\* and the exact (division) one otherwise, every call runs that one, and
\* psqrt<Packet4d> and prsqrt<Packet4d> are the exact square root and one
\* over the exact square root in both builds.
C5_ModeSelection ==
  /\ Cardinality(Lookup(defs, "psqrt", "Packet8f")) = 1
  /\ Cardinality(Lookup(defs, "prsqrt", "Packet8f")) = 1
  /\ \A d \in Lookup(defs, "psqrt", "Packet8f") :
       d.body = "psqrt_fast" <=> EIGEN_FAST_MATH
  /\ \A d \in Lookup(defs, "psqrt", "Packet8f") :
       d.body = "psqrt_exact" <=> ~EIGEN_FAST_MATH
  /\ \A d \in Lookup(defs, "prsqrt", "Packet8f") :
       d.body = "prsqrt_fast" <=> EIGEN_FAST_MATH
  /\ \A d \in Lookup(defs, "prsqrt", "Packet8f") :
       d.body = "prsqrt_div" <=> ~EIGEN_FAST_MATH
  /\ Lookup(defs, "psqrt", "Packet4d")
       = {Def("psqrt", "Packet4d", "mm256_sqrt_pd")}
  /\ Lookup(defs, "prsqrt", "Packet4d")
       = {Def("prsqrt", "Packet4d", "mm256_div_pd(one, mm256_sqrt_pd)")}
  /\ fn = "psqrt" =>
       loc.impl = IF EIGEN_FAST_MATH THEN "psqrt_fast" ELSE "psqrt_exact"
  /\ fn = "prsqrt" =>
       loc.impl = IF EIGEN_FAST_MATH THEN "prsqrt_fast" ELSE "prsqrt_div"

\* C5 happens: a build without EIGEN_FAST_MATH ran the division prsqrt.
C5_Witness ==
  /\ ~EIGEN_FAST_MATH
  /\ fn = "prsqrt"
  /\ loc.impl = "prsqrt_div"
  /\ \E i \in L : x[i] = Word(0, 129, 0) /\ loc.res[i] = Word(0, 126, 0)

\* C10: in fast mode prsqrt returns a NaN only in lanes whose input is
\* negative or a NaN; in every lane whose input is at least the least normal
\* float, +Infinity included, it returns the refined estimate, which is no
\* NaN, and for +Infinity it returns zero as the division mode does.
C10_NaNOnlyFromNegativeOrNaN ==
  FastPrsqrt =>
    \A i \in L :
      /\ IsNaN(loc.res[i]) => (IsNegative(x[i]) \/ IsNaN(x[i]))
      /\ IsNormalOrInf(x[i]) => (loc.res[i] = loc.x[i] /\ ~IsNaN(loc.res[i]))
      /\ x[i] = PosInf =>
           (loc.res[i] = PosZero /\ loc.res[i] = prsqrt_div(x).res[i])

\* ------------------------------------------------------------------------
\* Properties of psin
\* ------------------------------------------------------------------------

PiHalf      == Word(0, 127, 4788187)   \* the float nearest pi/2
Pi          == Word(0, 128, 4788187)   \* the float nearest pi
ThreePiHalf == Word(0, 129, 1493988)   \* the float nearest 3*pi/2

SignBit == Word(1, 0, 0)

\* |a - b| <= 2^-20
Near(a, b) == ~IsNaN(a) /\ Mag(sub32(a, b)) <= Mag(Word(0, 107, 0))

\* f is an odd integer
IsOddInteger(f) ==
  /\ IsFinite(f)
  /\ f.e >= 127
  /\ f.e <= 150
  /\ Sig(f) % 2^(150 - f.e) = 0
  /\ (Sig(f) \div 2^(150 - f.e)) % 2 = 1

\* C6: psin of the lanes 0, pi/2, pi, 3*pi/2 is about 0, 1, 0, -1: the lane 0
\* has shift 0 and takes the left polynomial without a sign flip, and is
\* exactly 0; pi/2 has shift 0 and takes the right one without a flip; pi
\* has an odd shift and takes the left one with a flip; 3*pi/2 has an odd
\* shift and takes the right one with a flip.
C6_QuarterPeriods ==
  fn = "psin" =>
    \A i \in L :
      /\ x[i] = PosZero =>
           /\ loc.shift[i] = PosZero
           /\ loc.res0[i] = loc.left_poly[i]
           /\ loc.res[i] = loc.res0[i]
           /\ loc.res[i] = PosZero
      /\ x[i] = PiHalf =>
           /\ loc.shift[i] = PosZero
           /\ loc.res0[i] = loc.right_poly[i]
           /\ loc.res[i] = loc.res0[i]
           /\ Near(loc.res[i], Word(0, 127, 0))
      /\ x[i] = Pi =>
           /\ IsOddInteger(loc.shift[i])
           /\ loc.res0[i] = loc.left_poly[i]
           /\ loc.res[i] = xor32(loc.res0[i], SignBit)
           /\ Near(loc.res[i], PosZero)
      /\ x[i] = ThreePiHalf =>
           /\ IsOddInteger(loc.shift[i])
           /\ loc.res0[i] = loc.right_poly[i]
           /\ loc.res[i] = xor32(loc.res0[i], SignBit)
           /\ Near(loc.res[i], Word(1, 127, 0))

\* C6 happens: psin was called with the lanes 0, pi/2, pi, 3*pi/2 side by
\* side, and the two polynomials differ in each of them.
C6_Witness ==
  /\ fn = "psin"
  /\ x[1] = PosZero /\ x[2] = PiHalf /\ x[3] = Pi /\ x[4] = ThreePiHalf
  /\ \A i \in 1..4 : loc.left_poly[i] # loc.right_poly[i]

\* C8: in every lane the result before the sign correction is, bit for bit,
\* the right polynomial where z > 1 and the left polynomial elsewhere; the
\* sign-flip mask has at most bit 31 set, and has it set exactly when the
\* integer made from shift has its lowest bit set; so the XOR inverts the
\* sign bit of the result iff shift is odd and leaves the other bits alone.
C8_SelectAndFlip ==
  fn = "psin" =>
    \A i \in L :
      /\ loc.res0[i] = IF GtOQ(loc.z[i], Word(0, 127, 0)) = AllOnes
                       THEN loc.right_poly[i] ELSE loc.left_poly[i]
      /\ loc.sign_flip_mask[i] \in {AllZeros, SignBit}
      /\ loc.sign_flip_mask[i] = SignBit <=> Bit(loc.shift_ints[i], 0) = 1
      /\ loc.sign_flip_mask[i] = SignBit <=> IsOddInteger(loc.shift[i])
      /\ loc.res[i].e = loc.res0[i].e
      /\ loc.res[i].m = loc.res0[i].m
      /\ loc.res[i].s # loc.res0[i].s <=> IsOddInteger(loc.shift[i])

\* C8 happens: one call of a build without AVX2 flipped a lane of the upper
\* half and not the lane below it in the lower half, took the right
\* polynomial in one lane and the left one in another.
C8_Witness ==
  /\ fn = "psin"
  /\ ~EIGEN_VECTORIZE_AVX2
  /\ \E i \in 1..(Lanes \div 2) :
       /\ loc.sign_flip_mask[i] = AllZeros
       /\ loc.sign_flip_mask[i + Lanes \div 2] = SignBit
  /\ \E i, j \in L :
       /\ loc.ival_mask[i] = AllOnes /\ loc.ival_mask[j] = AllZeros
       /\ loc.left_poly[i] # loc.right_poly[i]
       /\ loc.left_poly[j] # loc.right_poly[j]

====
